---- MODULE Spec2Model ----
(***************************************************************************)
(* A model of the RAID6 erasure-coded store: the GF(2^8) arithmetic of     *)
(* src/ffield.py and the controller of src/raid6.py (striping, parity,     *)
(* reads, the P/Q corruption locator and the matrix-inversion rebuild).    *)
(*                                                                         *)
(* Conventions.  Byte strings, chunks and matrix rows are sequences, so    *)
(* the code's 0-based index k is position k+1 here; disks and stripes keep *)
(* the code's 0-based numbers.  An exception raised by the Python code is  *)
(* an outcome of the call: the call's result names it and the writes made  *)
(* before it stay.                                                         *)
(***************************************************************************)
EXTENDS Integers, Sequences, FiniteSets, TLC

VARIABLES
    strip,       \* self.strip: the stripe count of the last encode
    disk,        \* the store: disk number -> (file name -> chunk bytes)
    input_file,  \* self.input_file: the bytes last handed to encode_data
    encoded,     \* history: data_with_parity as the last encode wrote it
    ret,         \* the last operation, its arguments and what it returned
    calls,       \* how many operations ran so far
    arg          \* the inputs of a pure-function run (power)

vars == <<strip, disk, input_file, encoded, ret, calls, arg>>

(***************************************************************************)
(* Program constants.  RAID6.__init__ passes w = Config.GF_DEGREE, which   *)
(* src/config.py does not define; w and modulus are the defaults of        *)
(* GaloisField.__init__.                                                   *)
(***************************************************************************)
NUM_DATA_DISK == 6
NUM_CHECKSUM_DISK == 2
CHUNK_SIZE == 16
GF_W == 8
GF_MODULUS == 285

(***************************************************************************)
(* Bounds of the model.                                                    *)
(***************************************************************************)
MaxCalls == 3
MaxStripes == 2
MaxCorrupt == 2
MaxExp == 8

N == NUM_DATA_DISK
M == NUM_CHECKSUM_DISK
D == N + M
chunk_size == CHUNK_SIZE
data_disk_list == 0 .. (N - 1)
check_disk_list == N .. (N + M - 1)

\* v itself, evaluated once to a value (for the model checker's speed)
Force(v) == IF v = v THEN v ELSE v

Max(S) == CHOOSE m \in S : \A e \in S : e <= m
Min(S) == CHOOSE m \in S : \A e \in S : m <= e

(***************************************************************************)
(* Integers as Python has them: ^ on two's-complement integers of any      *)
(* size, and an array index below 0 counting from the end.                 *)
(***************************************************************************)
RECURSIVE BitXor(_, _)
BitXor(a, b) ==
    IF a = 0 THEN b
    ELSE IF b = 0 THEN a
    ELSE 2 * BitXor(a \div 2, b \div 2) + (((a % 2) + (b % 2)) % 2)

\* BitXor on bytes, tabulated once
XorTable == [a \in 0 .. 255 |-> [b \in 0 .. 255 |-> BitXor(a, b)]]

NatXor(a, b) == IF a <= 255 /\ b <= 255 THEN XorTable[a][b] ELSE BitXor(a, b)

\* a ^ b of Python: with ~a = -1 - a, ~a ^ ~b = a ^ b and ~a ^ b = ~(a ^ b)
Flipped(neg, a) == IF neg THEN -1 - a ELSE a

PyXor(a, b) == Flipped((a < 0) # (b < 0), NatXor(Flipped(a < 0, a), Flipped(b < 0, b)))

\* t is an array of length len held as a function on 0 .. len-1
PyIndex(t, len, a) == IF a < 0 THEN t[a + len] ELSE t[a]

(***************************************************************************)
(* GaloisField: the log and antilog tables.                                *)
(***************************************************************************)
x_to_w == 2 ^ GF_W

\* one turn of the loop of setup_tables: b << 1, reduced by the modulus
NextB(b) ==
    LET c == 2 * b
    IN  IF (c \div x_to_w) % 2 = 1 THEN BitXor(c, GF_MODULUS) ELSE c

\* the values b takes, b at turn log being SetupB[log + 1]; the turns are
\* taken half of them at a time to keep the evaluation shallow
RECURSIVE SetupBFrom(_, _)
SetupBFrom(bs, n) ==
    IF bs = bs /\ n = 0 THEN bs
    ELSE IF n = 1 THEN Append(bs, NextB(bs[Len(bs)]))
    ELSE SetupBFrom(SetupBFrom(bs, n \div 2), n - (n \div 2))

SetupB == SetupBFrom(<<1>>, x_to_w - 2)

\* gflog[b] is the last log written at b, 0 where none was
gflog ==
    [b \in 0 .. (x_to_w - 1) |->
        LET logs == {l \in 0 .. (x_to_w - 2) : SetupB[l + 1] = b}
        IN  IF logs = {} THEN 0 ELSE Max(logs)]

gfilog ==
    [l \in 0 .. (x_to_w - 1) |-> IF l < x_to_w - 1 THEN SetupB[l + 1] ELSE 0]

add(a, b) == PyXor(a, b)

sub(a, b) == add(a, b)

\* if sum_log >= x_to_w - 1: sum_log -= x_to_w - 1
SumLog(sum_log) == IF sum_log >= x_to_w - 1 THEN sum_log - (x_to_w - 1) ELSE sum_log

mult(a, b) ==
    IF a = 0 \/ b = 0 THEN 0
    ELSE PyIndex(gfilog, x_to_w,
                 SumLog(PyIndex(gflog, x_to_w, a) + PyIndex(gflog, x_to_w, b)))

\* if diff_log < 0: diff_log += x_to_w - 1
DiffLog(diff_log) == IF diff_log < 0 THEN diff_log + (x_to_w - 1) ELSE diff_log

div(a, b) ==
    IF a = 0 THEN 0
    ELSE IF b = 0 THEN -1
    ELSE PyIndex(gfilog, x_to_w,
                 DiffLog(PyIndex(gflog, x_to_w, a) - PyIndex(gflog, x_to_w, b)))

\* the loop of power: res = mult(a, res), n times; the turns are taken
\* half of them at a time to keep the evaluation shallow
RECURSIVE PowerLoop(_, _, _)
PowerLoop(a, n, res) ==
    IF res = res /\ n = 0 THEN res
    ELSE IF n = 1 THEN mult(a, res)
    ELSE PowerLoop(a, n - (n \div 2), PowerLoop(a, n \div 2, res))

power(a, n) == PowerLoop(a, n % (x_to_w - 1), 1)

\* v1 and v2 are sequences
RECURSIVE DotFrom(_, _, _, _)
DotFrom(v1, v2, i, res) ==
    IF i > Len(v1) THEN res
    ELSE DotFrom(v1, v2, i + 1, add(res, mult(v1[i], v2[i])))

dot(v1, v2) == IF Len(v1) = Len(v2) THEN DotFrom(v1, v2, 1, 0) ELSE 0

Column(m, j) == [i \in 1 .. Len(m) |-> m[i][j]]

Transpose(m) == [j \in 1 .. Len(m[1]) |-> Column(m, j)]

\* m1 and m2 are non-empty sequences of rows of one length each
matmul(m1, m2) ==
    Force([i \in 1 .. Len(m1) |-> [j \in 1 .. Len(m2[1]) |-> dot(m1[i], Column(m2, j))]])

Eye(n) == [i \in 1 .. n |-> [j \in 1 .. n |-> IF i = j THEN 1 ELSE 0]]

setup_vander == [i \in 1 .. M |-> [j \in 1 .. N |-> power(j, i - 1)]]

vander == setup_vander

(***************************************************************************)
(* GaloisField.inverse: Gauss-Jordan on (A_ | I).  The loop variable k of  *)
(* the pivot search lives on between the turns of the outer loop; 0 here   *)
(* stands for k not yet bound.  singular records that some turn found a    *)
(* zero pivot and no row below to mend it.                                 *)
(***************************************************************************)
AddRows(r1, r2) == [c \in 1 .. Len(r1) |-> add(r1[c], r2[c])]

\* the rows below row i with a non-zero entry in column i
Below(A_, i) == {r \in (i + 1) .. Len(A_) : A_[r][i] # 0}

\* k after the pivot search of turn i (lines 121-124): untouched when the
\* pivot is non-zero or no row lies below, the first row found, else the last
PivotSearch(A_, i, k) ==
    IF A_[i][i] # 0 THEN k
    ELSE IF Below(A_, i) # {} THEN Min(Below(A_, i))
    ELSE IF i + 1 <= Len(A_) THEN Len(A_)
    ELSE k

\* line 125: row i plus row k when the pivot is zero
Mended(A_, i, k) == IF A_[i][i] = 0 THEN AddRows(A_[i], A_[k]) ELSE A_[i]

\* line 126: the row divided by its pivot
Normalised(row, i) == [c \in 1 .. Len(row) |-> div(row[c], row[i])]

\* row_j plus f times row_i
Cleared(row_j, row_i, f) ==
    [c \in 1 .. Len(row_i) |-> add(row_j[c], mult(row_i[c], f))]

\* lines 127-128: row i replaced, the rows below it cleared in column i
Eliminated(A_, i, row_i) ==
    [r \in 1 .. Len(A_) |->
        IF r = i THEN row_i
        ELSE IF r > i THEN Cleared(A_[r], row_i, div(A_[r][i], row_i[i]))
        ELSE A_[r]]

TurnWith(st, i, k) ==
    IF st.A_[i][i] = 0 /\ k = 0
    THEN [st EXCEPT !.err = "UnboundLocalError", !.singular = TRUE]
    ELSE [A_ |-> Eliminated(st.A_, i, Normalised(Mended(st.A_, i, k), i)),
          k |-> k,
          err |-> st.err,
          singular |-> st.singular \/ (st.A_[i][i] = 0 /\ Below(st.A_, i) = {})]

\* turn i of the first loop (lines 120-128)
ForwardTurn(st, i) == TurnWith(st, i, PivotSearch(st.A_, i, st.k))

RECURSIVE ForwardLoop(_, _)
ForwardLoop(st, i) ==
    IF i > Len(st.A_) \/ st.err # "" THEN st
    ELSE ForwardLoop(Force(ForwardTurn(st, i)), i + 1)

\* turn i of the second loop (lines 129-131)
BackwardTurn(A_, i) ==
    [r \in 1 .. Len(A_) |-> IF r < i THEN Cleared(A_[r], A_[i], A_[r][i]) ELSE A_[r]]

RECURSIVE BackwardLoop(_, _)
BackwardLoop(A_, i) ==
    IF i < 1 THEN A_ ELSE BackwardLoop(Force(BackwardTurn(A_, i)), i - 1)

\* (A_ | I)
Augmented(A_) == [r \in 1 .. Len(A_) |-> A_[r] \o Eye(Len(A_))[r]]

\* A_[:, dim:2*dim]
RightHalf(A_) == [r \in 1 .. Len(A_) |-> SubSeq(A_[r], Len(A_) + 1, 2 * Len(A_))]

\* what the two loops leave of the first loop's outcome fwd
Finished(fwd) ==
    IF fwd.err # ""
    THEN [err |-> fwd.err, inv |-> <<>>, singular |-> TRUE]
    ELSE [err |-> "",
          inv |-> RightHalf(BackwardLoop(fwd.A_, Len(fwd.A_))),
          singular |-> fwd.singular]

InverseSquare(A_) ==
    Finished(ForwardLoop([A_ |-> Augmented(A_), k |-> 0, err |-> "", singular |-> FALSE], 1))

\* lines 133-134: for a matrix that is not square, times its transpose
LeftInverse(sq, square, A_T) ==
    IF square \/ sq.err # "" THEN sq ELSE [sq EXCEPT !.inv = matmul(sq.inv, A_T)]

InverseWith(A, square, A_T) ==
    LeftInverse(InverseSquare(IF square THEN A ELSE matmul(A_T, A)), square, A_T)

\* A is a non-empty sequence of rows; the result is [err, inv, singular]
inverse(A) == InverseWith(A, Len(A) = Len(A[1]), Transpose(A))

(***************************************************************************)
(* The store: a directory Disk<j> per disk, holding the chunk files.       *)
(***************************************************************************)
EmptyDir == << >>

\* "chunk" + str(j) + str(i): the file of stripe i in the directory of disk j
FileName(j, i) == "chunk" \o ToString(j) \o ToString(i)

Exists(dsk, j, i) == j \in DOMAIN dsk /\ FileName(j, i) \in DOMAIN dsk[j]

\* open(file, 'wb') and write chunks[i], for every stripe i of `stripes` on disk j
WriteChunks(dir, j, stripes, chunks) ==
    LET names == {FileName(j, i) : i \in stripes}
    IN  [nm \in (DOMAIN dir) \cup names |->
            IF nm \in names
            THEN chunks[Max({i \in stripes : FileName(j, i) = nm})]
            ELSE dir[nm]]

\* the sequence of the members of S in the order list(set(...)) gives them:
\* small non-negative integers hash to themselves, so they come ascending
RECURSIVE SetToList(_)
SetToList(S) ==
    IF S = {} THEN <<>> ELSE <<Min(S)>> \o SetToList(S \ {Min(S)})

(***************************************************************************)
(* Striping and parity.                                                    *)
(***************************************************************************)
stripe_size == chunk_size * N

StripeCount(len) == len \div stripe_size + 1

\* a layout that takes the disk for the stripe
DiskMajorIndex(j, i, k) == (j * N + i) * chunk_size + k

\* where cell (disk j, stripe i, offset k) lies in the flat padded input:
\* reshape to (stripe_count, N, chunk_size), then transpose to (N, stripe_count, chunk_size)
PaddedIndex(j, i, k) == (i * N + j) * chunk_size + k

pad_data(input_data) ==
    LET stripe_count == StripeCount(Len(input_data))
        Flat(p) == IF p < Len(input_data) THEN input_data[p + 1] ELSE 0
    IN  Force([j \in 0 .. (N - 1) |->
            [i \in 0 .. (stripe_count - 1) |->
                [k \in 1 .. chunk_size |-> Flat(PaddedIndex(j, i, k - 1))]]])

\* padded_data is (N, stripes, chunk_size); the result is (M, stripes, chunk_size)
compute_parity(padded_data, stripes) ==
    Force([i \in 0 .. (M - 1) |->
        [j \in 0 .. (stripes - 1) |->
            [k \in 1 .. chunk_size |->
                dot(vander[i + 1], [d \in 1 .. N |-> padded_data[d - 1][j][k]])]]])

write_to_disk(dsk, data_with_parity, stripes) ==
    [j \in 0 .. (D - 1) |->
        WriteChunks(dsk[j], j, 0 .. (stripes - 1), data_with_parity[j])]

\* np.concatenate((padded_data, parity), axis=0)
Concatenated(padded_data, parity) ==
    Force([j \in 0 .. (D - 1) |-> IF j < N THEN padded_data[j] ELSE parity[j - N]])

WithParity(padded_data, stripes) ==
    Concatenated(padded_data, compute_parity(padded_data, stripes))

Written(dsk, data_with_parity, stripes) ==
    [strip |-> stripes,
     data_with_parity |-> data_with_parity,
     disk |-> write_to_disk(dsk, data_with_parity, stripes)]

\* what encode_data leaves: [strip, data_with_parity, disk]
encode_data(dsk, input_data) ==
    Written(dsk,
            WithParity(pad_data(input_data), StripeCount(Len(input_data))),
            StripeCount(Len(input_data)))

read_chunk_data(dsk, stripe_num, chunk_num) == dsk[chunk_num][FileName(chunk_num, stripe_num)]

\* the chunks of the data disks, stripe after stripe, disk after disk
RECURSIVE ReadFrom(_, _, _)
ReadFrom(dsk, stripes, p) ==
    IF p >= stripes * N THEN <<>>
    ELSE read_chunk_data(dsk, p \div N, p % N) \o ReadFrom(dsk, stripes, p + 1)

\* content[:data_length], for data_length >= 0
Prefix(content, data_length) ==
    SubSeq(content, 1, IF data_length < Len(content) THEN data_length ELSE Len(content))

read_disk_data(dsk, stripes, data_length) ==
    IF \E i \in 0 .. (stripes - 1), j \in 0 .. (N - 1) : ~Exists(dsk, j, i)
    THEN [ok |-> "FileNotFoundError", data |-> <<>>]
    ELSE [ok |-> "True", data |-> Prefix(ReadFrom(dsk, stripes, 0), data_length)]

(***************************************************************************)
(* The corruption locator.  It reads rows 0 and 1 of the checksum          *)
(* difference, so it is defined for M >= 2.                                *)
(***************************************************************************)
\* np.argmax: the first position of the greatest value
ArgMax(v) == Min({k \in 1 .. Len(v) : v[k] = Max({v[c] : c \in 1 .. Len(v)})})

\* lines 218-224
Located(Pmax, Qmax, i) ==
    IF Pmax > 0 /\ Qmax > 0 THEN << <<div(Qmax, Pmax) - 1, i>> >>
    ELSE IF Pmax > 0 THEN << <<N, i>> >>
    ELSE IF Qmax > 0 THEN << <<1 + N, i>> >>
    ELSE <<>>

\* what one stripe adds to corrupted_chunk (lines 215-224)
LocateStripe(checksum_diff, i) ==
    Located(checksum_diff[0][i][ArgMax(checksum_diff[0][i])],
            checksum_diff[1][i][ArgMax(checksum_diff[0][i])], i)

RECURSIVE LocateFrom(_, _, _)
LocateFrom(checksum_diff, stripes, i) ==
    IF i >= stripes THEN <<>>
    ELSE LocateStripe(checksum_diff, i) \o LocateFrom(checksum_diff, stripes, i + 1)

\* self.gf.add(new_checksum[:2], checksum[:2])
ChecksumDiff(new_checksum, checksum, stripes) ==
    Force([r \in 0 .. 1 |-> [i \in 0 .. (stripes - 1) |->
        [k \in 1 .. chunk_size |-> add(new_checksum[r][i][k], checksum[r][i][k])]]])

\* user_data and checksum as lines 196-206 load them
LoadData(dsk, stripes) ==
    Force([j \in 0 .. (N - 1) |-> [i \in 0 .. (stripes - 1) |-> read_chunk_data(dsk, i, j)]])

LoadChecksum(dsk, stripes) ==
    Force([r \in 0 .. (M - 1) |-> [i \in 0 .. (stripes - 1) |-> read_chunk_data(dsk, i, N + r)]])

\* [ok, chunks]: chunks is the list of (disk, stripe) pairs returned
check_strip_corruption(dsk, stripes) ==
    IF \E i \in 0 .. (stripes - 1), j \in 0 .. (D - 1) : ~Exists(dsk, j, i)
    THEN [ok |-> "FileNotFoundError", chunks |-> <<>>]
    ELSE [ok |-> "True",
          chunks |-> LocateFrom(ChecksumDiff(compute_parity(LoadData(dsk, stripes), stripes),
                                             LoadChecksum(dsk, stripes), stripes),
                                stripes, 0)]

(***************************************************************************)
(* Rebuilding chunks from the surviving ones.                              *)
(***************************************************************************)
\* a guard that lets one erasure too many through
OneTooMany(chunk_list) == Cardinality(chunk_list) > M + 1

TooManyChunks(chunk_list) == Cardinality(chunk_list) > M

TooManyDisks(disk_list) == Cardinality(disk_list) > M

\* np.delete(A, obj=chunk_list, axis=0) on A = (I ; vander)
DeleteRows(chunk_list) ==
    LET A == Eye(N) \o vander
        kept == SetToList({r \in 1 .. D : (r - 1) \notin chunk_list})
    IN  [r \in 1 .. Len(kept) |-> A[kept[r]]]

\* the surviving chunks' disks: left_data_chunk, then left_check_chunk
Survivors(chunk_list) ==
    SetToList(data_disk_list \ chunk_list) \o SetToList(check_disk_list \ chunk_list)

\* E_: the surviving chunks of the stripe, row by row
SurvivingRows(dsk, stripe_num, left) ==
    Force([r \in 1 .. Len(left) |-> read_chunk_data(dsk, stripe_num, left[r])])

\* np.concatenate([D, C], axis=0) with C = vander D
DataAndParity(Dm) == Dm \o matmul(vander, Dm)

\* lines 272-275, inv being what inverse(A_) gave
Solved(inv, E_) ==
    IF inv.err # ""
    THEN [err |-> inv.err, E |-> <<>>, singular |-> inv.singular]
    ELSE [err |-> "", E |-> DataAndParity(matmul(inv.inv, E_)), singular |-> inv.singular]

Failed(err) == [err |-> err, E |-> <<>>, singular |-> FALSE]

\* the rows (D ; C) computed for a stripe from its surviving chunks:
\* [err, E, singular].  A chunk that is not there fails the read (lines
\* 262-265); an index out of range fails np.delete (line 268); with no
\* data chunk or no parity chunk left, np.asarray([]) has one dimension and
\* np.concatenate fails (line 270)
SolveStripe(dsk, stripe_num, chunk_list) ==
    IF \E j \in (0 .. (D - 1)) \ chunk_list : ~Exists(dsk, j, stripe_num)
    THEN Failed("FileNotFoundError")
    ELSE IF \E c \in chunk_list : c \notin 0 .. (D - 1)
    THEN Failed("IndexError")
    ELSE IF data_disk_list \subseteq chunk_list \/ check_disk_list \subseteq chunk_list
    THEN Failed("ValueError")
    ELSE Solved(inverse(DeleteRows(chunk_list)),
                SurvivingRows(dsk, stripe_num, Survivors(chunk_list)))

\* a write back that leaves on a rebuilt disk nothing but the rebuilt chunk
WriteBackWholeDisk(dsk, stripe_num, chunk_list, sol) ==
    IF sol.err # ""
    THEN [ok |-> sol.err, disk |-> dsk, singular |-> sol.singular]
    ELSE [ok |-> "True",
          disk |-> [j \in DOMAIN dsk |->
                      IF j \in chunk_list
                      THEN WriteChunks(EmptyDir, j, {stripe_num},
                                       [i \in {stripe_num} |-> sol.E[j + 1]])
                      ELSE dsk[j]],
          singular |-> sol.singular]

\* lines 277-285, sol being the rows solved for
WriteBack(dsk, stripe_num, chunk_list, sol) ==
    IF sol.err # ""
    THEN [ok |-> sol.err, disk |-> dsk, singular |-> sol.singular]
    ELSE [ok |-> "True",
          disk |-> [j \in DOMAIN dsk |->
                      IF j \in chunk_list
                      THEN WriteChunks(dsk[j], j, {stripe_num}, [i \in {stripe_num} |-> sol.E[j + 1]])
                      ELSE dsk[j]],
          singular |-> sol.singular]

\* [ok, disk, singular]
rebuild_stripe_data(dsk, stripe_num, chunk_list) ==
    IF TooManyChunks(chunk_list)
    THEN [ok |-> "False", disk |-> dsk, singular |-> FALSE]
    ELSE WriteBack(dsk, stripe_num, chunk_list, SolveStripe(dsk, stripe_num, chunk_list))

\* the loop of rebuild_disk_data from stripe stripe_num on: what a call
\* returns is dropped, what it raises ends the loop; r is what the call for
\* stripe_num gave
RECURSIVE RebuildFrom(_, _, _, _, _)
RebuildNext(stripes, disk_list, stripe_num, singular, r) ==
    IF r.ok \in {"True", "False"}
    THEN RebuildFrom(r.disk, stripes, disk_list, stripe_num + 1, singular \/ r.singular)
    ELSE [ok |-> r.ok, disk |-> r.disk, singular |-> singular \/ r.singular]

RebuildFrom(dsk, stripes, disk_list, stripe_num, singular) ==
    IF stripe_num >= stripes
    THEN [ok |-> "True", disk |-> dsk, singular |-> singular]
    ELSE RebuildNext(stripes, disk_list, stripe_num, singular,
                     rebuild_stripe_data(dsk, stripe_num, disk_list))

rebuild_disk_data(dsk, stripes, disk_list) ==
    IF TooManyDisks(disk_list)
    THEN [ok |-> "False", disk |-> dsk, singular |-> FALSE]
    ELSE RebuildFrom(dsk, stripes, disk_list, 0, FALSE)

\* the driver's repair of what the locator returned: for chunk in
\* corrupted_chunk: rebuild_stripe_data(chunk[1], [chunk[0]])
RECURSIVE RepairFrom(_, _, _)
RepairNext(corrupted_chunk, n, r) ==
    IF r.ok \in {"True", "False"}
    THEN RepairFrom(r.disk, corrupted_chunk, n + 1)
    ELSE [ok |-> r.ok, disk |-> r.disk]

RepairFrom(dsk, corrupted_chunk, n) ==
    IF n > Len(corrupted_chunk)
    THEN [ok |-> "True", disk |-> dsk]
    ELSE RepairNext(corrupted_chunk, n,
                    rebuild_stripe_data(dsk, corrupted_chunk[n][2], {corrupted_chunk[n][1]}))

\* check_strip_corruption, then the repair of what it returned: c is what
\* the check gave; [ok, disk, chunks]
Repaired(dsk, c) ==
    IF c.ok # "True"
    THEN [ok |-> c.ok, disk |-> dsk, chunks |-> c.chunks]
    ELSE [ok |-> RepairFrom(dsk, c.chunks, 1).ok,
          disk |-> RepairFrom(dsk, c.chunks, 1).disk,
          chunks |-> c.chunks]

locate_and_repair(dsk, stripes) == Repaired(dsk, check_strip_corruption(dsk, stripes))

(***************************************************************************)
(* Inputs.                                                                 *)
(***************************************************************************)
\* a byte string of the given length, no two neighbours alike
MakeInput(len) == [p \in 1 .. len |-> (7 * p + 1) % 256]

\* lengths around the stripe boundaries: s full stripes and a tail
StripeInputs ==
    {MakeInput(s * stripe_size + t) :
        s \in 0 .. (MaxStripes - 1), t \in {0, 1, stripe_size - 1}}

\* one input per stripe count
RepairInputs == {MakeInput(s * stripe_size + 1) : s \in 0 .. (MaxStripes - 1)}

\* the disks a fault may hit: the first and last data disk, P and Q
FaultDisks == {0, N - 1, N, N + 1}

DiskLists == {E \in SUBSET FaultDisks : Cardinality(E) <= M + 1}

\* the lists of more disks than the code can rebuild
OverLists == {E \in SUBSET FaultDisks : Cardinality(E) > M}

\* the lists a single stripe is rebuilt for: a data disk, the Q disk, a data
\* disk with P, and one list too long
StripeLists == {{0}, {N + 1}, {0, N}, {0, N, N + 1}}

CorruptOffsets == {0, chunk_size - 1}

CorruptMasks == {1, 8}

\* small exponents, and those around the multiples of x_to_w - 1
PowerExps ==
    (0 .. MaxExp) \cup {m * (x_to_w - 1) + e : m \in 1 .. 2, e \in {-1, 0, 1}}

PowerArgs == [a : 0 .. (x_to_w - 1), n : PowerExps]

(***************************************************************************)
(* What a state holds, read against what the last encode wrote.            *)
(***************************************************************************)
Stripes == 0 .. (strip - 1)

\* the disks that miss a chunk of one of the stripes
Missing(dsk, stripes) == {j \in 0 .. (D - 1) : \E i \in stripes : ~Exists(dsk, j, i)}

\* cell (j, i) holds the bytes encode_data wrote
AsEncoded(dsk, j, i) == Exists(dsk, j, i) /\ read_chunk_data(dsk, i, j) = encoded[j][i]

\* the bytes that differ from what encode_data wrote
DiffBytes(dsk) ==
    {c \in (0 .. (D - 1)) \X Stripes \X (1 .. chunk_size) :
        /\ Exists(dsk, c[1], c[2])
        /\ read_chunk_data(dsk, c[2], c[1])[c[3]] # encoded[c[1]][c[2]][c[3]]}

(***************************************************************************)
(* The operations.                                                         *)
(***************************************************************************)
InitRaid ==
    /\ strip = 0
    /\ disk = [j \in 0 .. (D - 1) |-> EmptyDir]
    /\ input_file = <<>>
    /\ encoded = <<>>
    /\ ret = [op |-> "init"]
    /\ calls = 0

Init == InitRaid /\ arg = [a |-> 0, n |-> 0]

\* the state an operation leaves: what it returned and the store after it
Returns(r, dsk) ==
    /\ ret' = r
    /\ disk' = dsk
    /\ calls' = calls + 1
    /\ UNCHANGED arg

Encoded(x, e) ==
    /\ strip' = e.strip
    /\ encoded' = e.data_with_parity
    /\ input_file' = x
    /\ Returns([op |-> "encode_data", after |-> ret.op], e.disk)

\* read_file then encode_data(self.input_file)
EncodeData(x) ==
    /\ calls < MaxCalls
    /\ Encoded(x, encode_data(disk, x))

Read(data_length, r) ==
    Returns([op |-> "read_disk_data", after |-> ret.op,
             data_length |-> data_length, ok |-> r.ok, data |-> r.data], disk)

ReadDiskData(data_length) ==
    /\ calls < MaxCalls
    /\ Read(data_length, read_disk_data(disk, strip, data_length))
    /\ UNCHANGED <<strip, input_file, encoded>>

CleanAllDisk ==
    /\ calls < MaxCalls
    /\ Returns([op |-> "clean_all_disk", after |-> ret.op],
               [j \in 0 .. (D - 1) |-> EmptyDir])
    /\ UNCHANGED <<strip, input_file, encoded>>

CleanDisk(clean_list) ==
    /\ calls < MaxCalls
    /\ Returns([op |-> "clean_disk", after |-> ret.op, list |-> clean_list],
               [j \in 0 .. (D - 1) |-> IF j \in clean_list THEN EmptyDir ELSE disk[j]])
    /\ UNCHANGED <<strip, input_file, encoded>>

Rebuilt(op, stripe_num, list, r) ==
    Returns([op |-> op, after |-> ret.op, stripe_num |-> stripe_num, list |-> list,
             ok |-> r.ok, singular |-> r.singular, pre |-> disk], r.disk)

RebuildStripeData(stripe_num, chunk_list) ==
    /\ calls < MaxCalls
    /\ Rebuilt("rebuild_stripe_data", stripe_num, chunk_list,
               rebuild_stripe_data(disk, stripe_num, chunk_list))
    /\ UNCHANGED <<strip, input_file, encoded>>

RebuildDiskData(disk_list) ==
    /\ calls < MaxCalls
    /\ Rebuilt("rebuild_disk_data", 0, disk_list, rebuild_disk_data(disk, strip, disk_list))
    /\ UNCHANGED <<strip, input_file, encoded>>

\* a fault of the medium: one stored byte changes (by mask) behind the
\* controller's back
Corrupt(d, s, k, mask) ==
    /\ ret.op \in {"encode_data", "corrupt"}
    /\ Exists(disk, d, s)
    /\ disk[d][FileName(d, s)][k + 1] = encoded[d][s][k + 1]
    /\ Cardinality(DiffBytes(disk)) < MaxCorrupt
    /\ disk' = [disk EXCEPT ![d][FileName(d, s)][k + 1] = PyXor(@, mask)]
    /\ ret' = [op |-> "corrupt", after |-> "encode_data"]
    /\ UNCHANGED <<strip, input_file, encoded, calls, arg>>

Checked(op, r, dsk) ==
    Returns([op |-> op, after |-> ret.op, ok |-> r.ok, chunks |-> r.chunks, pre |-> disk], dsk)

CheckStripCorruption ==
    /\ calls < MaxCalls
    /\ Checked("check_strip_corruption", check_strip_corruption(disk, strip), disk)
    /\ UNCHANGED <<strip, input_file, encoded>>

LocatedAndRepaired(r) == Checked("locate_and_repair", r, r.disk)

\* the driver's detect-and-recover: check_strip_corruption, then
\* rebuild_stripe_data for each pair it returned
LocateAndRepair ==
    /\ calls < MaxCalls
    /\ LocatedAndRepaired(locate_and_repair(disk, strip))
    /\ UNCHANGED <<strip, input_file, encoded>>

Power ==
    /\ ret' = [op |-> "power", after |-> "init", result |-> power(arg.a, arg.n)]
    /\ UNCHANGED <<strip, disk, input_file, encoded, calls, arg>>

(***************************************************************************)
(* Specifications.  Spec: encode, lose disks, rebuild.  SpecOver: encode,  *)
(* lose more disks than can be rebuilt, rebuild.  SpecFrame: encode, lose  *)
(* disks, rebuild single stripes.  SpecStripe: encode and                  *)
(* read back.  SpecLocate: encode, corrupt bytes, locate and repair.       *)
(* SpecPower: power on drawn arguments.                                    *)
(***************************************************************************)
Next ==
    \/ \E x \in RepairInputs : EncodeData(x)
    \/ \E E \in DiskLists \ {{}} : CleanDisk(E)
    \/ \E E \in DiskLists : RebuildDiskData(E)
    \/ \E E \in DiskLists, s \in 0 .. (strip - 1) : RebuildStripeData(s, E)

Spec == Init /\ [][Next]_vars

NextOver ==
    \/ \E x \in RepairInputs : EncodeData(x)
    \/ \E E \in OverLists : CleanDisk(E)
    \/ \E E \in OverLists : RebuildDiskData(E)
    \/ \E E \in OverLists, s \in 0 .. (strip - 1) : RebuildStripeData(s, E)

SpecOver == Init /\ [][NextOver]_vars

NextFrame ==
    \/ \E x \in RepairInputs : EncodeData(x)
    \/ \E E \in StripeLists : CleanDisk(E)
    \/ \E E \in StripeLists, s \in 0 .. (strip - 1) : RebuildStripeData(s, E)

SpecFrame == Init /\ [][NextFrame]_vars

NextStripe ==
    \/ \E x \in StripeInputs : EncodeData(x)
    \/ \E n \in {Len(input_file), 0, strip * stripe_size} : ReadDiskData(n)
    \/ CleanAllDisk

SpecStripe == Init /\ [][NextStripe]_vars

NextLocate ==
    \/ \E x \in RepairInputs : calls = 0 /\ EncodeData(x)
    \/ \E d \in FaultDisks, s \in 0 .. (strip - 1),
          k \in CorruptOffsets, mask \in CorruptMasks :
          Corrupt(d, s, k, mask)
    \/ CheckStripCorruption
    \/ LocateAndRepair

SpecLocate == Init /\ [][NextLocate]_vars

InitPower == InitRaid /\ arg \in PowerArgs

NextPower == Power

SpecPower == InitPower /\ [][NextPower]_vars

(***************************************************************************)
(* Properties.                                                             *)
(***************************************************************************)
\* every cell of every stripe holds the bytes encode_data wrote
AllAsEncoded(dsk) == \A j \in 0 .. (D - 1), i \in Stripes : AsEncoded(dsk, j, i)

\* the disks of E hold nothing and every other cell is as encode_data wrote it
Erased(dsk, E) ==
    \A j \in 0 .. (D - 1), i \in Stripes :
        IF j \in E THEN ~Exists(dsk, j, i) ELSE AsEncoded(dsk, j, i)

\* every stored parity byte is the dot product of its Vandermonde row with
\* the stored data bytes
ParityHolds(dsk) ==
    /\ \A j \in 0 .. (D - 1), i \in Stripes : Exists(dsk, j, i)
    /\ \A i \in Stripes, r \in 0 .. (M - 1), k \in 1 .. chunk_size :
          read_chunk_data(dsk, i, N + r)[k] =
              dot(vander[r + 1], [d \in 1 .. N |-> read_chunk_data(dsk, i, d - 1)[k]])

\* C1 (erasure correctness): after encode_data, the erasure of a set E of at
\* most M disks and rebuild_disk_data(E), every cell of every disk holds the
\* bytes encode_data wrote.
ErasureCorrectness ==
    (/\ ret.op = "rebuild_disk_data"
     /\ Cardinality(ret.list) <= M
     /\ Erased(ret.pre, ret.list))
    => (ret.ok = "True" /\ AllAsEncoded(disk))

\* C2 (locator correctness): with one byte of one cell (d, s) changed since
\* encode_data, check_strip_corruption returns exactly [(d, s)].
LocatorCorrectness ==
    (/\ ret.op = "check_strip_corruption"
     /\ Cardinality(DiffBytes(ret.pre)) = 1)
    => \A c \in DiffBytes(ret.pre) : ret.chunks = << <<c[1], c[2]>> >>

\* C3 (round trip): read_disk_data(len(x)) right after encode_data(x)
\* returns exactly x.
RoundTrip ==
    (/\ ret.op = "read_disk_data"
     /\ ret.after = "encode_data"
     /\ ret.data_length = Len(input_file))
    => (ret.ok = "True" /\ ret.data = input_file)

\* C3 happens: an input of exactly one full stripe was encoded and read back
RoundTripWitness ==
    /\ ret.op = "read_disk_data"
    /\ ret.after = "encode_data"
    /\ Len(input_file) = stripe_size
    /\ ret.data_length = Len(input_file)
    /\ ret.data = input_file

\* C4 (fail loud on over-erasure): rebuild_stripe_data and rebuild_disk_data
\* called with more than M indices report failure and leave every chunk of
\* every disk as it was.
FailLoudOnOverErasure ==
    (/\ ret.op \in {"rebuild_stripe_data", "rebuild_disk_data"}
     /\ Cardinality(ret.list) > M)
    => (ret.ok = "False" /\ disk = ret.pre)

\* C4 happens: rebuild_stripe_data refused M + 1 erased disks of an encoded
\* store
FailLoudWitness ==
    /\ ret.op = "rebuild_stripe_data"
    /\ strip > 0
    /\ Cardinality(ret.list) = M + 1
    /\ Missing(ret.pre, Stripes) = ret.list
    /\ ret.ok = "False"

\* C5 (parity invariant): after encode_data, and after a rebuild that
\* returned True following the erasure of at most M disks, every stored
\* parity byte is the dot product of its Vandermonde row with the stored
\* data bytes.
ParityInvariant ==
    (\/ ret.op = "encode_data"
     \/ /\ ret.op = "rebuild_disk_data"
        /\ ret.ok = "True"
        /\ Cardinality(ret.list) <= M
        /\ Erased(ret.pre, ret.list))
    => ParityHolds(disk)

\* C6 (stripe count): an input of length L is laid out in exactly
\* ceil(L / (N * chunk_size)) stripes.
StripeCountIsCeiling ==
    ret.op = "encode_data"
    => strip = (Len(input_file) + stripe_size - 1) \div stripe_size

\* C7 (singular detection): when the elimination in inverse meets a zero
\* pivot with no row below to mend it, the rebuild fails and writes no chunk.
SingularDetection ==
    (/\ ret.op \in {"rebuild_stripe_data", "rebuild_disk_data"}
     /\ ret.singular)
    => (ret.ok # "True" /\ disk = ret.pre)

\* C8 (power contract): power(0, n) = 0 for every n > 0, power(a, 0) = 1,
\* and power(a, q - 1) = 1 for every a # 0.
PowerContract ==
    ret.op = "power"
    => /\ (arg.a = 0 /\ arg.n > 0) => ret.result = 0
       /\ arg.n = 0 => ret.result = 1
       /\ (arg.a # 0 /\ arg.n = x_to_w - 1) => ret.result = 1

\* C9 (locator range check): check_strip_corruption never returns a pair
\* whose disk index is outside [0, N + 2).
LocatorRangeCheck ==
    ret.op = "check_strip_corruption"
    => \A n \in 1 .. Len(ret.chunks) : ret.chunks[n][1] \in 0 .. (N + 1)

\* C10 (locate then repair): with one byte of one cell changed since
\* encode_data, check_strip_corruption followed by rebuild_stripe_data for
\* each returned pair brings every cell back to the encoded bytes, and
\* check_strip_corruption then returns the empty list.
LocateThenRepair ==
    (/\ ret.op = "locate_and_repair"
     /\ Cardinality(DiffBytes(ret.pre)) = 1)
    => /\ AllAsEncoded(disk)
       /\ check_strip_corruption(disk, strip).chunks = <<>>

\* the chunk files of dsk other than those of the cells (j, stripe_num), j in
\* chunk_list, with what they hold
OtherCells(dsk, stripe_num, chunk_list) ==
    UNION {{<<j, nm, dsk[j][nm]>> : nm \in DOMAIN dsk[j]} : j \in DOMAIN dsk} \
        {<<j, FileName(j, stripe_num), dsk[j][FileName(j, stripe_num)]>> :
            j \in {c \in chunk_list \cap DOMAIN dsk : Exists(dsk, c, stripe_num)}}

\* C11 (frame of repair): a call rebuild_stripe_data(stripe_num, chunk_list)
\* writes only the cells (i, stripe_num), i in chunk_list: every cell of
\* every other stripe and of every disk not in chunk_list stays as it was,
\* and so does self.strip.
RepairFrame ==
    [][(ret'.op = "rebuild_stripe_data" /\ calls' = calls + 1)
       => /\ strip' = strip
          /\ OtherCells(disk', ret'.stripe_num, ret'.list)
                 = OtherCells(disk, ret'.stripe_num, ret'.list)]_vars

\* C11 happens: in a store of two stripes a call of rebuild_stripe_data
\* wrote a chunk
RepairFrameWitness ==
    /\ ret.op = "rebuild_stripe_data"
    /\ strip = 2
    /\ ret.ok = "True"
    /\ disk # ret.pre
    /\ \E j \in ret.list : Exists(ret.pre, j, 1 - ret.stripe_num)

====
